---- MODULE Spec2Model ----
(***************************************************************************)
(* State-machine model of @payloops/observability: the correlation store   *)
(* (lib/context.ts), the header codec (lib/context.ts), the context-aware  *)
(* log emitter and logger handles (lib/logger.ts) and the telemetry        *)
(* bootstrap (lib/otel).                                                   *)
(*                                                                         *)
(* JavaScript values are modelled as strings; the value `undefined` is the *)
(* constant Undef, the empty string is "".  A plain object is a function   *)
(* from its own keys to their values.                                      *)
(***************************************************************************)
EXTENDS Integers, Sequences, FiniteSets, TLC

VARIABLES
    cur,            \* what correlationStorage.getStore() returns to the running code
    frames,         \* active correlationStorage.run() calls on the JS call stack
    queue,          \* asynchronous continuations waiting on the event loop
    task,           \* the continuation the event loop is running now (Idle when none)
    outcome,        \* what the caller of the last finished with...Context call observed
    NODE_ENV,       \* process.env.NODE_ENV || 'development', read once at load
    LOG_LEVEL,      \* process.env.LOG_LEVEL || default, read once at load
    sdk,            \* otel: module variable sdk
    globalProvider, \* what logs.getLoggerProvider() returns
    loggerProvider, \* otel: module variable loggerProvider
    effects,        \* what the bootstrap has done to the process so far
    returned,       \* the last call of the bootstrap and what it returned
    objs,           \* heap of plain objects (bindings objects), by object id
    handles,        \* Logger handles created so far; each closes over a bindings object
    argOf,          \* object ids that callers passed to child() and still hold
    lastLog,        \* inputs and sink effects of the last Logger call
    headers,        \* the header object of the request at the header codec
    extracted       \* result of the last extractCorrelationId(headers)

ctxVars == <<cur, frames, queue, task, outcome>>
loopVars == <<cur, frames, queue, task>>
envVars == <<NODE_ENV, LOG_LEVEL>>
otelVars == <<sdk, globalProvider, loggerProvider, effects, returned>>
heapVars == <<objs, handles, argOf>>
hdrVars == <<headers, extracted>>
vars == <<cur, frames, queue, task, outcome, NODE_ENV, LOG_LEVEL,
          sdk, globalProvider, loggerProvider, effects, returned,
          objs, handles, argOf, lastLog, headers, extracted>>

Undef == "undefined"
None == [none |-> TRUE]

(***************************************************************************)
(* Bounds                                                                  *)
(***************************************************************************)
MaxDepth == 2       \* nested withCorrelationContext calls on the stack
MaxPending == 2     \* continuations waiting on the event loop
MaxHandles == 3     \* Logger handles of a child() chain, the base logger included
MaxLogHandles == 2  \* Logger handles while every kind of log call is tried
MaxHeaders == 2     \* entries of a header object

\* the interleaved logical operations (requests, workflow tasks)
Ops == {1, 2}

(***************************************************************************)
(* Plain objects                                                           *)
(***************************************************************************)
EmptyObj == [k \in {} |-> Undef]

\* { ...a, ...b }
Spread(a, b) ==
    [k \in DOMAIN a \cup DOMAIN b |-> IF k \in DOMAIN b THEN b[k] ELSE a[k]]

\* obj[k], undefined for a missing key
Prop(obj, k) == IF k \in DOMAIN obj THEN obj[k] ELSE Undef

\* the object with a single key
Single(k, v) == [x \in {k} |-> v]

\* JavaScript truthiness of a string-or-undefined value
Truthy(v) == v # Undef /\ v # ""

(***************************************************************************)
(* Correlation store (lib/context.ts)                                      *)
(***************************************************************************)
\* the value of getStore() when no run() is active
NoCtx == [absent |-> TRUE]

CorrelationContext(c, m, o, w) ==
    [correlationId |-> c, merchantId |-> m, orderId |-> o, workflowId |-> w]

\* the records each logical operation installs; every operation has its own
\* correlation ids
RecordsOf(op) ==
    IF op = 1
    THEN { CorrelationContext("A", Undef, Undef, Undef),
           CorrelationContext("A2", "", "O", Undef) }
    ELSE { CorrelationContext("B", "M", "O2", "W") }

Records == UNION { RecordsOf(op) : op \in Ops }

\* what a wrapped function throws
Errors == {"boom"}

Idle == [op |-> 0]

correlationStorage == cur

getCorrelationContext == correlationStorage

\* faulty variant: the new record is laid over the outer one
EnterStoreMerged(ctx, prev) ==
    IF prev = NoCtx THEN ctx
    ELSE CorrelationContext(ctx.correlationId,
            IF ctx.merchantId = Undef THEN prev.merchantId ELSE ctx.merchantId,
            IF ctx.orderId = Undef THEN prev.orderId ELSE ctx.orderId,
            IF ctx.workflowId = Undef THEN prev.workflowId ELSE ctx.workflowId)

\* AsyncLocalStorage.run(ctx, fn): the store fn starts with
EnterStore(ctx, prev) == ctx

\* faulty variant: the store is not put back when fn is left
ExitStoreKept(prev, inner) == inner

\* AsyncLocalStorage.run(ctx, fn): the store the caller has again once fn is left
ExitStore(prev, inner) == prev

\* faulty variant: a module-level variable, left as the last code set it
StoreAtResumeAmbient(captured, ambient) == ambient

\* the store a continuation runs with: the one captured when it was scheduled
StoreAtResume(captured, ambient) == captured

\* faulty variant: the exception of fn is caught and dropped
PropagateSwallowed(e) == [kind |-> "return", err |-> Undef]

\* how run() hands an exception of fn to its caller
Propagate(e) == [kind |-> "throw", err |-> e]

Top == frames[Len(frames)]

Pop == SubSeq(frames, 1, Len(frames) - 1)

NoResult == [kind |-> "none", err |-> Undef]

\* A continuation on the event loop.  store is what the runtime captured when
\* it was scheduled.  pre, awaiting and raised are bookkeeping of the model:
\* the store in force before the with...Async call, the store of the awaiting
\* caller, and the error the wrapped function raised.
\* a continuation scheduled by plain application code
Plain(op, store) ==
    [op |-> op, store |-> store, role |-> "plain", pre |-> NoCtx,
     awaiting |-> NoCtx, result |-> NoResult, raised |-> Undef]

\* the rest of the async fn given to withCorrelationContextAsync
Body(op, store, pre, awaiting) ==
    [op |-> op, store |-> store, role |-> "body", pre |-> pre,
     awaiting |-> awaiting, result |-> NoResult, raised |-> Undef]

\* the caller of withCorrelationContextAsync, resumed when the promise settles
Caller(op, store, pre, result, raised) ==
    [op |-> op, store |-> store, role |-> "caller", pre |-> pre,
     awaiting |-> NoCtx, result |-> result, raised |-> raised]

\* What the caller of a with...Context call observes when the call completes:
\* kind and err are what the call hands back; raised (what fn raised) and pre
\* (getCorrelationContext() just before the call) are bookkeeping of the model.
NoOutcome == [kind |-> "none", err |-> Undef, raised |-> Undef,
              pre |-> NoCtx, async |-> FALSE]

Observed(result, raised, pre, async) ==
    [kind |-> result.kind, err |-> result.err, raised |-> raised,
     pre |-> pre, async |-> async]

Running == task # Idle

\* continuations waiting now, plus those the running code is bound to queue:
\* one per open async call and one for the caller awaiting a running body
Reserved ==
    Cardinality(queue)
    + Cardinality({i \in DOMAIN frames : frames[i].async})
    + (IF Running /\ task.role = "body" THEN 1 ELSE 0)

(***************************************************************************)
(* Event loop and correlation-store actions                                *)
(***************************************************************************)
\* a request (or workflow task) arrives: its handler is queued with no store
Request(op) ==
    /\ Reserved < MaxPending
    /\ queue' = queue \cup {Plain(op, NoCtx)}
    /\ outcome' = NoOutcome
    /\ UNCHANGED <<cur, frames, task>>

\* the event loop runs a waiting continuation; the runtime re-installs the
\* store captured when the continuation was scheduled
Resume(c) ==
    /\ ~Running
    /\ c \in queue
    /\ queue' = queue \ {c}
    /\ task' = c
    /\ frames' = <<>>
    /\ cur' = StoreAtResume(c.store, cur)
    /\ outcome' = IF c.role = "caller"
                  THEN Observed(c.result, c.raised, c.pre, TRUE)
                  ELSE NoOutcome

\* withCorrelationContext(ctx, fn) / withCorrelationContextAsync(ctx, fn):
\* correlationStorage.run(ctx, fn) enters fn
Enter(ctx, async) ==
    /\ Running
    /\ Len(frames) < MaxDepth
    /\ ctx \in RecordsOf(task.op)
    /\ async => Reserved < MaxPending
    /\ frames' = Append(frames, [prev |-> cur, ctx |-> ctx, async |-> async])
    /\ cur' = EnterStore(ctx, cur)
    /\ outcome' = NoOutcome
    /\ UNCHANGED <<queue, task>>

withCorrelationContext(ctx) == Enter(ctx, FALSE)

withCorrelationContextAsync(ctx) == Enter(ctx, TRUE)

\* fn of withCorrelationContext returns normally
FnReturns ==
    /\ frames # <<>>
    /\ ~Top.async
    /\ frames' = Pop
    /\ cur' = ExitStore(Top.prev, cur)
    /\ outcome' = Observed([kind |-> "return", err |-> Undef], Undef,
                           Top.prev, FALSE)
    /\ UNCHANGED <<queue, task>>

\* fn of withCorrelationContext throws e
FnThrows(e) ==
    /\ frames # <<>>
    /\ ~Top.async
    /\ frames' = Pop
    /\ cur' = ExitStore(Top.prev, cur)
    /\ outcome' = Observed(Propagate(e), e, Top.prev, FALSE)
    /\ UNCHANGED <<queue, task>>

\* fn of withCorrelationContextAsync returns a pending promise; the rest of
\* fn is a continuation captured inside the extent, the caller awaits
AsyncFnSuspends ==
    /\ frames # <<>>
    /\ Top.async
    /\ frames' = Pop
    /\ cur' = ExitStore(Top.prev, cur)
    /\ queue' = queue \cup {Body(task.op, cur, Top.prev, cur')}
    /\ outcome' = NoOutcome
    /\ UNCHANGED task

\* fn of withCorrelationContextAsync throws e before returning a promise:
\* the async wrapper turns it into a rejection the awaiting caller receives
AsyncFnThrows(e) ==
    /\ frames # <<>>
    /\ Top.async
    /\ frames' = Pop
    /\ cur' = ExitStore(Top.prev, cur)
    /\ queue' = queue \cup {Caller(task.op, cur', Top.prev, Propagate(e), e)}
    /\ outcome' = NoOutcome
    /\ UNCHANGED task

\* the promise of the async fn is fulfilled (e = Undef) or rejected with e
BodySettles(e) ==
    /\ Running
    /\ task.role = "body"
    /\ frames = <<>>
    /\ queue' = queue \cup
         {Caller(task.op, task.awaiting, task.pre,
                 IF e = Undef THEN [kind |-> "return", err |-> Undef]
                              ELSE Propagate(e), e)}
    /\ task' = Idle
    /\ outcome' = NoOutcome
    /\ UNCHANGED <<cur, frames>>

\* running code schedules a continuation (promise reaction, timer, I/O callback)
Schedule ==
    /\ Running
    /\ Reserved < MaxPending
    /\ queue' = queue \cup {Plain(task.op, cur)}
    /\ outcome' = NoOutcome
    /\ UNCHANGED <<cur, frames, task>>

\* the running continuation returns to the event loop
EndTask ==
    /\ Running
    /\ frames = <<>>
    /\ task.role # "body"
    /\ task' = Idle
    /\ outcome' = NoOutcome
    /\ UNCHANGED <<cur, frames, queue>>

(***************************************************************************)
(* Context-aware log emitter (lib/logger.ts)                               *)
(***************************************************************************)
SERVICE_NAME == "loop"

\* a field value JSON.stringify cannot serialise (an object that contains itself)
Cyclic == "[Circular]"

\* JavaScript values handed to the overloaded log functions
Str(s) == [type |-> "string", val |-> s]
Obj(o) == [type |-> "object", val |-> o]

\* toUpperCase on the level names
ToUpperCase(s) ==
    CASE s = "trace" -> "TRACE" [] s = "debug" -> "DEBUG" [] s = "info" -> "INFO"
      [] s = "warn" -> "WARN" [] s = "error" -> "ERROR" [] s = "fatal" -> "FATAL"
      [] s = "verbose" -> "VERBOSE" [] OTHER -> s

levelConfig ==
    [l \in {"trace", "debug", "info", "warn", "error", "fatal"} |->
        CASE l = "trace" -> [severity |-> 1, label |-> "TRACE", priority |-> 0]
          [] l = "debug" -> [severity |-> 5, label |-> "DEBUG", priority |-> 1]
          [] l = "info" -> [severity |-> 9, label |-> "INFO", priority |-> 2]
          [] l = "warn" -> [severity |-> 13, label |-> "WARN", priority |-> 3]
          [] l = "error" -> [severity |-> 17, label |-> "ERROR", priority |-> 4]
          [] l = "fatal" -> [severity |-> 21, label |-> "FATAL", priority |-> 5]]

\* faulty variant: the threshold one level too low
currentLevelPriorityOff(level) ==
    IF level \in DOMAIN levelConfig THEN levelConfig[level].priority - 1 ELSE 2

\* levelConfig[LOG_LEVEL]?.priority ?? 2
currentLevelPriority(level) ==
    IF level \in DOMAIN levelConfig THEN levelConfig[level].priority ELSE 2

\* trace.getActiveSpan()
NoSpan == [absent |-> TRUE]
ActiveSpan == [traceId |-> "t1", spanId |-> "s1", traceFlags |-> 1]

\* faulty variant: a placeholder correlation_id when no record is active
getContextPlaceholder(store, span) ==
    Spread(IF span # NoSpan
             THEN Spread(Single("trace_id", span.traceId), Single("span_id", span.spanId))
             ELSE EmptyObj,
           IF store # NoCtx
             THEN Spread(Single("correlation_id", store.correlationId),
                    Spread(IF Truthy(store.merchantId)
                             THEN Single("merchant_id", store.merchantId) ELSE EmptyObj,
                      Spread(IF Truthy(store.orderId)
                               THEN Single("order_id", store.orderId) ELSE EmptyObj,
                             IF Truthy(store.workflowId)
                               THEN Single("workflow_id", store.workflowId) ELSE EmptyObj)))
             ELSE Single("correlation_id", "unknown"))

\* faulty variant: merchantId, orderId and workflowId are not copied
getContextNoOptional(store, span) ==
    Spread(IF span # NoSpan
             THEN Spread(Single("trace_id", span.traceId), Single("span_id", span.spanId))
             ELSE EmptyObj,
           IF store # NoCtx THEN Single("correlation_id", store.correlationId)
                            ELSE EmptyObj)

\* getContext(): trace and correlation fields for log enrichment
getContext(store, span) ==
    LET c0 == IF span # NoSpan
              THEN Spread(Single("trace_id", span.traceId),
                          Single("span_id", span.spanId))
              ELSE EmptyObj
        c1 == IF store # NoCtx
              THEN Spread(c0, Single("correlation_id", store.correlationId))
              ELSE c0
        c2 == IF store # NoCtx /\ Truthy(store.merchantId)
              THEN Spread(c1, Single("merchant_id", store.merchantId)) ELSE c1
        c3 == IF store # NoCtx /\ Truthy(store.orderId)
              THEN Spread(c2, Single("order_id", store.orderId)) ELSE c2
        c4 == IF store # NoCtx /\ Truthy(store.workflowId)
              THEN Spread(c3, Single("workflow_id", store.workflowId)) ELSE c3
    IN  c4

\* the faults the telemetry runtime can raise during one call
Faults == {"none", "getLoggerProvider", "getLogger", "emit"}

\* the body of emitToOtel's try block: threw tells whether it raised
emitToOtelTry(level, message, attributes, provider, fault, span, env) ==
    IF fault = "getLoggerProvider" THEN [emitted |-> None, threw |-> TRUE]
    ELSE IF provider = "ProxyLoggerProvider" THEN [emitted |-> None, threw |-> FALSE]
    ELSE IF fault = "getLogger" THEN [emitted |-> None, threw |-> TRUE]
    ELSE IF fault = "emit" THEN [emitted |-> None, threw |-> TRUE]
    ELSE [emitted |->
            [severityNumber |-> IF level \in DOMAIN levelConfig
                                THEN levelConfig[level].severity ELSE 9,
             severityText |-> IF level \in DOMAIN levelConfig
                              THEN levelConfig[level].label ELSE "INFO",
             body |-> message,
             attributes |-> Spread([service |-> SERVICE_NAME, env |-> env], attributes),
             span |-> span],
          threw |-> FALSE]

\* faulty variant: the try block without its catch
emitToOtelNoCatch(level, message, attributes, provider, fault, span, env) ==
    LET r == emitToOtelTry(level, message, attributes, provider, fault, span, env)
    IN  [emitted |-> r.emitted, threw |-> r.threw, faulted |-> r.threw]

\* emitToOtel: the try block with its catch-all; faulted records that the
\* telemetry sink raised inside
emitToOtel(level, message, attributes, provider, fault, span, env) ==
    LET r == emitToOtelTry(level, message, attributes, provider, fault, span, env)
    IN  IF r.threw THEN [emitted |-> None, threw |-> FALSE, faulted |-> TRUE]
        ELSE [emitted |-> r.emitted, threw |-> FALSE, faulted |-> FALSE]

\* JSON.stringify of an object leaves out the keys whose value is undefined
DropUndefined(o) == [k \in {x \in DOMAIN o : o[x] # Undef} |-> o[k]]

\* formatConsole: the line written to the console, or a throw of JSON.stringify
formatConsole(level, message, data, env) ==
    LET label == IF level \in DOMAIN levelConfig THEN levelConfig[level].label
                 ELSE ToUpperCase(level)
    IN  IF \E k \in DOMAIN data : data[k] = Cyclic
        THEN [threw |-> TRUE, out |-> None]
        ELSE IF env = "production"
        THEN [threw |-> FALSE,
              out |-> [format |-> "json",
                       line |-> DropUndefined(
                           Spread([time |-> "T", level |-> label, msg |-> message,
                                   service |-> SERVICE_NAME, env |-> env], data))]]
        ELSE [threw |-> FALSE,
              out |-> [format |-> "pretty", label |-> label, msg |-> message,
                       line |-> DropUndefined(data)]]

\* what one call of log() did: console line, telemetry emission, exception
Effect(console, otel, threw, faulted) ==
    [console |-> console, otel |-> otel, threw |-> threw, faulted |-> faulted]

NoEffect == Effect(None, None, FALSE, FALSE)

\* log(level, msgOrData, msg): the core log function
log(level, msgOrData, msg, store, span, provider, fault, env, minLevel) ==
    IF level \notin DOMAIN levelConfig
       \/ levelConfig[level].priority < currentLevelPriority(minLevel)
    THEN NoEffect
    ELSE
      LET message == IF msgOrData.type = "string" THEN msgOrData.val
                     ELSE IF msg = Undef THEN "" ELSE msg
          data == IF msgOrData.type = "string" THEN EmptyObj ELSE msgOrData.val
          context == getContext(store, span)
          enrichedData == Spread(data, context)
          line == formatConsole(level, message, enrichedData, env)
          sent == emitToOtel(level, message, enrichedData, provider, fault, span, env)
      IN  IF line.threw THEN Effect(None, None, TRUE, FALSE)
          ELSE Effect(line.out, sent.emitted, sent.threw, sent.faulted)

\* boundLog of createLogger(bindings): the per-level methods of a handle
boundLog(bindings, level, msgOrData, msg, store, span, provider, fault, env, minLevel) ==
    IF msgOrData.type = "string"
    THEN log(level, Obj(Spread(EmptyObj, bindings)), msgOrData.val,
             store, span, provider, fault, env, minLevel)
    ELSE log(level, Obj(Spread(bindings, msgOrData.val)), msg,
             store, span, provider, fault, env, minLevel)

(***************************************************************************)
(* Logger handles (lib/logger.ts)                                          *)
(***************************************************************************)
Levels == DOMAIN levelConfig

\* call-site fields of the (fields, message) form
CallFields ==
    { [a |-> "v2", service |-> "other"],
      [correlation_id |-> "X", merchant_id |-> "MX"],
      [a |-> "v2", payload |-> Cyclic],
      [msg |-> "shadow"] }

\* the arguments of a per-level method: (message) or (fields, message)
CallArgs ==
    { <<Str("m1"), Undef>> } \cup { <<Obj(f), "m2">> : f \in CallFields }

\* the objects callers pass to child()
ChildBindings ==
    { Single("a", "v1"), Single("b", "v1"), Single("correlation_id", "Y") }

\* bindings that collide with call-site, context-derived and base fields
CollidingBindings ==
    { [a |-> "v1", correlation_id |-> "Y", service |-> "bound"] }

\* the extent a call is issued in: the innermost active run(), else the
\* extent the running continuation was scheduled in
Scope == IF frames # <<>> THEN Top.ctx ELSE task.store

\* no Logger call was made in the last step
NoLog == [h |-> 0, level |-> "none", arg |-> Str(""), msg |-> Undef,
          scope |-> NoCtx, span |-> NoSpan, effect |-> NoEffect]

\* faulty variant: the handle keeps the object the caller passed
childClosureShared(fresh, arg) == arg

\* which object the handle made by child() closes over
childClosure(fresh, arg) == fresh

\* createLogger(bindings): a handle closing over the bindings object; bound is
\* the value the bindings had when the handle was made
createLogger(id, bound) == [bindings |-> id, bound |-> bound]

\* a per-level method of handle h: level(msg) or level(fields, msg)
LogCall(h, level, args, span, fault) ==
    /\ Running
    /\ lastLog = NoLog
    /\ h \in 1..Len(handles)
    /\ lastLog' =
         [h |-> h, level |-> level, arg |-> args[1], msg |-> args[2],
          scope |-> Scope, span |-> span,
          effect |-> boundLog(objs[handles[h].bindings], level, args[1], args[2],
                              getCorrelationContext, span, globalProvider, fault,
                              NODE_ENV, LOG_LEVEL)]
    /\ outcome' = NoOutcome
    /\ UNCHANGED <<loopVars, envVars, otelVars, heapVars, hdrVars>>

\* the level strings log(level: string, ...) is applied to: the six of
\* levelConfig and one outside it
LevelNames == Levels \cup {"verbose"}

\* log(level, msgOrData, msg) applied directly, without a handle (h is 0)
CoreLog(level, args, span, fault) ==
    /\ lastLog = NoLog
    /\ lastLog' =
         [h |-> 0, level |-> level, arg |-> args[1], msg |-> args[2],
          scope |-> getCorrelationContext, span |-> span,
          effect |-> log(level, args[1], args[2], getCorrelationContext, span,
                         globalProvider, fault, NODE_ENV, LOG_LEVEL)]
    /\ outcome' = NoOutcome
    /\ UNCHANGED <<loopVars, envVars, otelVars, heapVars, hdrVars>>

\* the per-level method returns (or throws) to its caller; log calls are
\* synchronous, so nothing else runs between the call and its return
LogReturns ==
    /\ lastLog # NoLog
    /\ lastLog' = NoLog
    /\ UNCHANGED <<ctxVars, envVars, otelVars, heapVars, hdrVars>>

\* h.child(childBindings): createLogger({ ...bindings, ...childBindings })
Child(h, childBindings, limit) ==
    /\ h \in 1..Len(handles)
    /\ Len(handles) < limit
    /\ lastLog = NoLog
    /\ LET arg == Len(objs) + 1
           fresh == Len(objs) + 2
           bindings == objs[handles[h].bindings]
       IN  /\ objs' = objs \o <<childBindings, Spread(bindings, childBindings)>>
           /\ handles' = Append(handles,
                            createLogger(childClosure(fresh, arg),
                                         Spread(handles[h].bound, childBindings)))
           /\ argOf' = argOf \cup {arg}
    /\ outcome' = NoOutcome
    /\ UNCHANGED <<loopVars, envVars, otelVars, lastLog, hdrVars>>

\* a caller changes an object it passed to child() earlier
MutateArg(o, k) ==
    /\ o \in argOf
    /\ Prop(objs[o], k) # "changed"
    /\ lastLog = NoLog
    /\ objs' = [objs EXCEPT ![o] = Spread(@, Single(k, "changed"))]
    /\ outcome' = NoOutcome
    /\ UNCHANGED <<loopVars, envVars, otelVars, handles, argOf, lastLog, hdrVars>>

(***************************************************************************)
(* Telemetry bootstrap (lib/otel)                                          *)
(***************************************************************************)
\* let sdk = null; let loggerProvider = null
NoSdk == [id |-> 0, resource |-> None, state |-> "null"]
NoProvider == [id |-> 0, state |-> "null"]

\* nothing constructed, registered, started or listening yet
NoEffects == [constructed |-> 0, registered |-> 0, started |-> 0, listeners |-> 0]

\* no call of the bootstrap was made yet
NoReturn == [call |-> "none", args |-> <<>>, value |-> None]

\* the promise a call returns
Promise(of) == [promise |-> of]

\* the arguments of initTelemetry: a service name with a version, or a
\* TelemetryConfig object (serviceVersion then takes its default)
SimpleInit == <<Str("my-service"), "1.0.0">>

Configs ==
    { SimpleInit,
      <<Obj([serviceName |-> "my-service", environment |-> "production"]), Undef>> }

\* the Resource initTelemetry builds from its arguments
Resource(config, serviceVersion, env) ==
    LET version == IF serviceVersion = Undef THEN "0.0.1" ELSE serviceVersion
        cfg == IF config.type = "string"
               THEN [serviceName |-> config.val, serviceVersion |-> version]
               ELSE config.val
    IN  [serviceName |-> cfg.serviceName,
         serviceVersion |-> IF Truthy(Prop(cfg, "serviceVersion"))
                            THEN cfg.serviceVersion ELSE "0.0.1",
         environment |-> IF Truthy(Prop(cfg, "environment"))
                         THEN cfg.environment ELSE env]

\* faulty variant: an SDK that was shut down no longer counts
AlreadyInitializedRunning(s) == s # NoSdk /\ s.state # "shutdown"

\* if (sdk) at the top of initTelemetry
AlreadyInitialized(s) == s # NoSdk

\* the module and process state right after the first initTelemetry call
Bootstrapped(config, serviceVersion, env, done) ==
    [sdk |-> [id |-> done.constructed + 1,
              resource |-> Resource(config, serviceVersion, env),
              state |-> "started"],
     loggerProvider |-> [id |-> done.registered + 1, state |-> "active"],
     globalProvider |-> "LoggerProvider",
     effects |-> [constructed |-> done.constructed + 1,
                  registered |-> done.registered + 1,
                  started |-> done.started + 1,
                  listeners |-> done.listeners + 1]]

\* initTelemetry(config, serviceVersion): returns the stored SDK, or builds,
\* registers and starts the runtime and installs the SIGTERM listener
initTelemetry(config, serviceVersion) ==
    /\ lastLog = NoLog
    /\ IF AlreadyInitialized(sdk)
       THEN /\ returned' = [call |-> "initTelemetry",
                            args |-> <<config, serviceVersion>>, value |-> sdk]
            /\ UNCHANGED <<sdk, globalProvider, loggerProvider, effects>>
       ELSE LET b == Bootstrapped(config, serviceVersion, NODE_ENV, effects)
            IN  /\ loggerProvider' = b.loggerProvider
                /\ globalProvider' = b.globalProvider
                /\ sdk' = b.sdk
                /\ effects' = b.effects
                /\ returned' = [call |-> "initTelemetry",
                                args |-> <<config, serviceVersion>>,
                                value |-> b.sdk]
    /\ outcome' = NoOutcome
    /\ UNCHANGED <<loopVars, envVars, heapVars, lastLog, hdrVars>>

\* shutdownTelemetry(): resolves at once without an SDK, else sdk.shutdown();
\* the module variable sdk keeps the instance
shutdownTelemetry ==
    /\ lastLog = NoLog
    /\ IF sdk = NoSdk
       THEN /\ returned' = [call |-> "shutdownTelemetry", args |-> <<>>,
                            value |-> Promise("resolved")]
            /\ UNCHANGED sdk
       ELSE /\ sdk' = [sdk EXCEPT !.state = "shutdown"]
            /\ returned' = [call |-> "shutdownTelemetry", args |-> <<>>,
                            value |-> Promise("sdk.shutdown()")]
    /\ outcome' = NoOutcome
    /\ UNCHANGED <<globalProvider, loggerProvider, effects>>
    /\ UNCHANGED <<loopVars, envVars, heapVars, lastLog, hdrVars>>

\* the process receives SIGTERM: the listener initTelemetry installed shuts
\* down the SDK and the logger provider
Sigterm ==
    /\ lastLog = NoLog
    /\ effects.listeners > 0
    /\ sdk' = IF sdk = NoSdk THEN sdk ELSE [sdk EXCEPT !.state = "shutdown"]
    /\ loggerProvider' = IF loggerProvider = NoProvider THEN loggerProvider
                         ELSE [loggerProvider EXCEPT !.state = "shutdown"]
    /\ outcome' = NoOutcome
    /\ UNCHANGED <<globalProvider, effects, returned>>
    /\ UNCHANGED <<loopVars, envVars, heapVars, lastLog, hdrVars>>

(***************************************************************************)
(* Header codec (lib/context.ts)                                           *)
(***************************************************************************)
CORRELATION_ID_HEADER == "X-Correlation-ID"
REQUEST_ID_HEADER == "X-Request-ID"

\* header names as they arrive on the wire, in several spellings
HeaderNames ==
    { "x-correlation-id", "X-Correlation-ID", "X-CORRELATION-ID",
      "x-request-id", "X-Request-ID", "accept" }

HeaderValues == { "abc", "def", "", Undef }

\* the outputs of nanoid(21); no header carries one of them
FreshIds == { "nanoid1", "nanoid2" }

\* faulty variant: header names are compared as they arrive
ToLowerCaseIdentity(name) == name

\* String.prototype.toLowerCase on the header names
ToLowerCase(name) ==
    CASE name \in {"x-correlation-id", "X-Correlation-ID", "X-CORRELATION-ID"}
           -> "x-correlation-id"
      [] name \in {"x-request-id", "X-Request-ID"} -> "x-request-id"
      [] OTHER -> name

\* generateCorrelationId(): nanoid(21), whose random output is the argument
generateCorrelationId(random) == random

\* the loop of extractCorrelationId over Object.entries(headers): a header
\* object is the sequence of its <<key, value>> entries in enumeration order
RECURSIVE normalizedHeaders(_)
normalizedHeaders(entries) ==
    IF entries = <<>> THEN EmptyObj
    ELSE LET n == Len(entries)
         IN  Spread(normalizedHeaders(SubSeq(entries, 1, n - 1)),
                    Single(ToLowerCase(entries[n][1]), entries[n][2]))

\* faulty variant: the request id is looked up first
extractCorrelationIdRequestFirst(entries, random) ==
    LET normalized == normalizedHeaders(entries)
        c == Prop(normalized, ToLowerCase(CORRELATION_ID_HEADER))
        r == Prop(normalized, ToLowerCase(REQUEST_ID_HEADER))
    IN  IF Truthy(r) THEN r
        ELSE IF Truthy(c) THEN c
        ELSE generateCorrelationId(random)

\* extractCorrelationId(headers)
extractCorrelationId(entries, random) ==
    LET normalized == normalizedHeaders(entries)
        c == Prop(normalized, ToLowerCase(CORRELATION_ID_HEADER))
        r == Prop(normalized, ToLowerCase(REQUEST_ID_HEADER))
    IN  IF Truthy(c) THEN c
        ELSE IF Truthy(r) THEN r
        ELSE generateCorrelationId(random)

\* header objects: up to MaxHeaders entries with distinct keys
HeaderObjects ==
    UNION { { e \in [1..n -> HeaderNames \X HeaderValues] :
                \A i, j \in 1..n : i # j => e[i][1] # e[j][1] } : n \in 0..MaxHeaders }

\* the middleware calls extractCorrelationId(req.headers)
Extract(random) ==
    /\ extracted = Undef
    /\ extracted' = extractCorrelationId(headers, random)
    /\ UNCHANGED <<headers, ctxVars, envVars, otelVars, heapVars, lastLog>>

(***************************************************************************)
(* Initial state and specifications                                        *)
(***************************************************************************)
\* values of the environment variables NODE_ENV and LOG_LEVEL at load
EnvNodeEnv == { Undef, "production" }
EnvLogLevel == { Undef, "warn", "verbose" }

InitCtx ==
    /\ cur = NoCtx
    /\ frames = <<>>
    /\ queue = {}
    /\ task = Idle
    /\ outcome = NoOutcome

InitEnv(nodeEnvs, logLevels) ==
    \E e \in nodeEnvs, l \in logLevels :
        /\ NODE_ENV = IF Truthy(e) THEN e ELSE "development"
        /\ LOG_LEVEL = IF Truthy(l) THEN l
                       ELSE IF NODE_ENV = "production" THEN "info" ELSE "debug"

\* the module state of lib/otel and of the logs API before initTelemetry
InitOtel ==
    /\ sdk = NoSdk
    /\ loggerProvider = NoProvider
    /\ globalProvider = "ProxyLoggerProvider"
    /\ effects = NoEffects
    /\ returned = NoReturn

\* the same once the entry point has called initTelemetry, as the README
\* asks every service to do before anything else
InitOtelStarted ==
    LET b == Bootstrapped(SimpleInit[1], SimpleInit[2], NODE_ENV, NoEffects)
    IN  /\ sdk = b.sdk
        /\ loggerProvider = b.loggerProvider
        /\ globalProvider = b.globalProvider
        /\ effects = b.effects
        /\ returned = [call |-> "initTelemetry", args |-> SimpleInit,
                       value |-> b.sdk]

InitLogger ==
    /\ objs = << [service |-> SERVICE_NAME, env |-> NODE_ENV] >>
    /\ handles = << createLogger(1, [service |-> SERVICE_NAME, env |-> NODE_ENV]) >>
    /\ argOf = {}
    /\ lastLog = NoLog

InitHdr ==
    /\ headers = <<>>
    /\ extracted = Undef

\* a service whose entry point has initialised telemetry, with NODE_ENV and
\* LOG_LEVEL unset
Init ==
    /\ InitCtx
    /\ InitEnv({Undef}, {Undef})
    /\ InitOtelStarted
    /\ InitLogger
    /\ InitHdr

\* the calls made inside the interleaved operations: (message), and
\* (fields, message) with a field named like a context-derived one
CtxCallArgs ==
    { <<Str("m1"), Undef>>, <<Obj(Single("correlation_id", "X")), "m2">> }

\* a step of the event loop or the correlation store touches nothing else
Quiet ==
    /\ lastLog = NoLog
    /\ UNCHANGED <<lastLog, envVars, otelVars, heapVars, hdrVars>>

\* the correlation store under interleaved logical operations, with log calls
\* through the base logger
Next ==
    \/ \E op \in Ops : Request(op) /\ Quiet
    \/ \E c \in queue : Resume(c) /\ Quiet
    \/ \E ctx \in Records : withCorrelationContext(ctx) /\ Quiet
    \/ \E ctx \in Records : withCorrelationContextAsync(ctx) /\ Quiet
    \/ FnReturns /\ Quiet
    \/ \E e \in Errors : FnThrows(e) /\ Quiet
    \/ AsyncFnSuspends /\ Quiet
    \/ \E e \in Errors : AsyncFnThrows(e) /\ Quiet
    \/ \E e \in Errors \cup {Undef} : BodySettles(e) /\ Quiet
    \/ Schedule /\ Quiet
    \/ EndTask /\ Quiet
    \/ \E args \in CtxCallArgs : LogCall(1, "info", args, NoSpan, "none")
    \/ LogReturns

Spec == Init /\ [][Next]_vars


\* a service started with any NODE_ENV and LOG_LEVEL, telemetry not yet
\* initialised
InitLog ==
    /\ InitCtx
    /\ InitEnv(EnvNodeEnv, EnvLogLevel)
    /\ InitOtel
    /\ InitLogger
    /\ InitHdr

\* every kind of Logger call, on the base logger and its children, inside and
\* outside correlation extents, before and after initTelemetry, with and
\* without faults of the telemetry runtime
NextLog ==
    \/ Request(2) /\ Quiet
    \/ \E c \in queue : Resume(c) /\ Quiet
    \/ \E ctx \in Records : withCorrelationContext(ctx) /\ Quiet
    \/ FnReturns /\ Quiet
    \/ EndTask /\ Quiet
    \/ LogReturns
    \/ \E h \in 1..Len(handles), level \in Levels, args \in CallArgs,
          span \in {NoSpan, ActiveSpan}, fault \in Faults :
            LogCall(h, level, args, span, fault)
    \/ \E h \in 1..Len(handles), b \in CollidingBindings : Child(h, b, MaxLogHandles)
    \/ initTelemetry(SimpleInit[1], SimpleInit[2])

SpecLog == InitLog /\ [][NextLog]_vars

\* chains of child() calls, callers changing the objects they passed, and log
\* calls through every handle
NextChild ==
    \/ Request(1) /\ Quiet
    \/ \E c \in queue : Resume(c) /\ Quiet
    \/ EndTask /\ Quiet
    \/ \E h \in 1..Len(handles), b \in ChildBindings : Child(h, b, MaxHandles)
    \/ \E o \in argOf, k \in {"a", "b"} : MutateArg(o, k)
    \/ \E h \in 1..Len(handles), args \in CtxCallArgs \cup {<<Obj(Single("a", "v2")), "m2">>} :
            LogCall(h, "info", args, NoSpan, "none")
    \/ LogReturns

SpecChild == Init /\ [][NextChild]_vars

\* the core log function on every level string and both argument shapes,
\* before and after initTelemetry, with and without faults of the runtime
NextCore ==
    \/ \E level \in LevelNames, args \in CallArgs,
          span \in {NoSpan, ActiveSpan}, fault \in Faults :
            CoreLog(level, args, span, fault)
    \/ LogReturns
    \/ initTelemetry(SimpleInit[1], SimpleInit[2])

SpecCore == InitLog /\ [][NextCore]_vars

\* any sequence of initTelemetry and shutdownTelemetry calls and SIGTERM
\* deliveries, with log calls through the base logger in between
NextOtel ==
    \/ Request(1) /\ Quiet
    \/ \E c \in queue : Resume(c) /\ Quiet
    \/ EndTask /\ Quiet
    \/ \E args \in CtxCallArgs : LogCall(1, "info", args, NoSpan, "none")
    \/ LogReturns
    \/ \E c \in Configs : initTelemetry(c[1], c[2])
    \/ shutdownTelemetry
    \/ Sigterm

SpecOtel == InitLog /\ [][NextOtel]_vars

\* a request with any header object reaches extractCorrelationId
InitHdrAny ==
    /\ InitCtx
    /\ InitEnv({Undef}, {Undef})
    /\ InitOtelStarted
    /\ InitLogger
    /\ headers \in HeaderObjects
    /\ extracted = Undef

NextHdr == \E random \in FreshIds : Extract(random)

SpecHdr == InitHdrAny /\ [][NextHdr]_vars

(***************************************************************************)
(* Properties of the correlation store                                     *)
(***************************************************************************)
\* C1: inside fn, getCorrelationContext() is exactly the record of the
\* innermost enclosing withCorrelationContext call (nothing of the outer record
\* is merged in), the caller of a nested call was itself seeing the record of
\* the call around it, and when a call has returned or thrown the caller sees
\* again the value getCorrelationContext() had just before the call.
C1_InnermostRecordThenRevert ==
    /\ frames # <<>> => getCorrelationContext = Top.ctx
    /\ \A i \in DOMAIN frames : i > 1 => frames[i].prev = frames[i - 1].ctx
    /\ (outcome.kind # "none" /\ ~outcome.async)
          => getCorrelationContext = outcome.pre

\* an inner call made inside an outer extent with another record has just
\* thrown, and the code of the outer extent runs again
C1_Witness ==
    /\ Len(frames) = 1
    /\ outcome.kind = "throw"
    /\ ~outcome.async
    /\ outcome.pre = Top.ctx
    /\ outcome.pre \in Records

\* C2: a continuation runs with the record of the extent it was scheduled in,
\* whatever other operations installed in between, and the running operation
\* never sees a record of another operation.
C2_ContinuationSeesOwnRecord ==
    Running =>
        /\ frames = <<>> => getCorrelationContext = task.store
        /\ getCorrelationContext # NoCtx
              => getCorrelationContext \in RecordsOf(task.op)

\* a continuation of operation 1 scheduled inside an extent runs while a
\* continuation that operation 2 scheduled inside its own extent is waiting
C2_Witness ==
    /\ Running
    /\ frames = <<>>
    /\ task.op = 1
    /\ task.store \in Records
    /\ \E c \in queue : c.op = 2 /\ c.store \in Records

\* C3: when fn throws, or the promise of the async fn rejects, the caller gets
\* that same error, and at that point getCorrelationContext() is already the
\* value from before the call.
C3_ErrorUnchangedAfterRestore ==
    outcome.raised # Undef =>
        /\ outcome.kind = "throw"
        /\ outcome.err = outcome.raised
        /\ getCorrelationContext = outcome.pre

\* the caller of withCorrelationContextAsync, itself inside an extent, resumes
\* with the rejection
C3_Witness ==
    /\ outcome.raised # Undef
    /\ outcome.async
    /\ outcome.pre \in Records

\* a synchronous throw reaches a caller that has no record
C3_WitnessSync ==
    /\ outcome.raised # Undef
    /\ ~outcome.async
    /\ outcome.pre = NoCtx

(***************************************************************************)
(* Properties of the log emitter                                           *)
(***************************************************************************)
\* a Logger call was made in the last step and reached the console
Logged == lastLog.h # 0 /\ lastLog.effect.console # None

\* the fields of the record as the console shows them
ConsoleFields == lastLog.effect.console.line

\* the record reached the telemetry sink
Emitted == lastLog.h # 0 /\ lastLog.effect.otel # None

\* the attributes of the record handed to the telemetry sink
OtelAttributes == lastLog.effect.otel.attributes

\* every value a record of another operation holds
ForeignIds(op) ==
    UNION { { r.correlationId, r.merchantId, r.orderId, r.workflowId } :
              r \in UNION { RecordsOf(o) : o \in Ops \ {op} } } \ { Undef, "" }

\* fields carries the ids of record R: given(v) tells whether R sets v
TaggedWith(fields, R, given(_)) ==
    /\ Prop(fields, "correlation_id") = R.correlationId
    /\ given(R.merchantId) => Prop(fields, "merchant_id") = R.merchantId
    /\ given(R.orderId) => Prop(fields, "order_id") = R.orderId
    /\ given(R.workflowId) => Prop(fields, "workflow_id") = R.workflowId
    /\ \A k \in DOMAIN fields : fields[k] \notin ForeignIds(task.op)

IsSet(v) == v # Undef

\* C5 as stated: a record logged inside the extent of
\* withCorrelationContext(R, fn) carries R.correlationId as correlation_id and
\* every one of merchantId, orderId, workflowId that R sets, and no id of
\* another operation's record.
C5_TaggedWithAllSetFields ==
    lastLog.scope # NoCtx =>
        /\ Logged => TaggedWith(ConsoleFields, lastLog.scope, IsSet)
        /\ Emitted => TaggedWith(OtelAttributes, lastLog.scope, IsSet)

\* C5 amended: the same, for the fields that R sets to a non-empty string; a
\* field R sets to the empty string is left out of the record.
C5_TaggedWithNonEmptyFields ==
    lastLog.scope # NoCtx =>
        /\ Logged => TaggedWith(ConsoleFields, lastLog.scope, Truthy)
        /\ Emitted => TaggedWith(OtelAttributes, lastLog.scope, Truthy)

\* a continuation of operation 2, scheduled inside its extent, logs while a
\* continuation of operation 1 scheduled inside another extent is waiting
C5_Witness ==
    /\ Logged
    /\ Emitted
    /\ frames = <<>>
    /\ task.op = 2
    /\ lastLog.scope \in Records
    /\ Truthy(lastLog.scope.merchantId)
    /\ \E c \in queue : c.op = 1 /\ c.store \in Records

\* C4: when the telemetry sink raises during a log call (getLoggerProvider,
\* getLogger or emit throws), the console line of that call is still written
\* and the call returns normally.
C4_SinkFaultIsolated ==
    (lastLog.h # 0 /\ lastLog.effect.faulted) =>
        /\ lastLog.effect.console # None
        /\ ~lastLog.effect.threw

\* the initialised telemetry runtime raised during a call through a child handle
C4_Witness ==
    /\ lastLog.h > 1
    /\ lastLog.effect.faulted
    /\ globalProvider = "LoggerProvider"
    /\ lastLog.effect.console # None

\* the six levels from least to most severe
LevelOrder == <<"trace", "debug", "info", "warn", "error", "fatal">>

Rank(level) == CHOOSE i \in DOMAIN LevelOrder : LevelOrder[i] = level

\* the minimum level in force: LOG_LEVEL, or info when LOG_LEVEL names no level
MinLevel == IF LOG_LEVEL \in Levels THEN LOG_LEVEL ELSE "info"

\* C6: a log call below the configured minimum level writes nothing to the
\* console, emits nothing to the telemetry sink and returns normally.
C6_BelowThresholdNoOp ==
    (lastLog.h # 0 /\ Rank(lastLog.level) < Rank(MinLevel)) =>
        /\ lastLog.effect.console = None
        /\ lastLog.effect.otel = None
        /\ ~lastLog.effect.threw
        /\ ~lastLog.effect.faulted

\* a call with fields through a child handle, one level below the minimum,
\* with telemetry initialised
C6_Witness ==
    /\ lastLog.h > 1
    /\ lastLog.arg.type = "object"
    /\ Rank(lastLog.level) + 1 = Rank(MinLevel)
    /\ globalProvider = "LoggerProvider"

\* the fields given at the call site of the last call
CallSite == IF lastLog.arg.type = "object" THEN lastLog.arg.val ELSE EmptyObj

\* the fields bound to the handle of the last call by its chain of child() calls
Bound == handles[lastLog.h].bound

\* the base fields
Base == [service |-> SERVICE_NAME, env |-> NODE_ENV]

\* the context-derived fields at the last call
Derived == getContext(lastLog.scope, lastLog.span)

\* C7 as stated: for every field name, the emitted value is the one of the
\* highest-precedence origin that supplies it, in the order call-site fields >
\* bound fields > context-derived fields > base fields.
C7_PrecedenceAsStated ==
    Logged =>
        LET expected == Spread(Spread(Spread(Base, Derived), Bound), CallSite)
        IN  \A k \in DOMAIN expected :
              /\ Prop(ConsoleFields, k) = expected[k]
              /\ Emitted => Prop(OtelAttributes, k) = expected[k]

\* C8 as stated: every emitted record carries service and env, and it carries
\* correlation_id exactly when a correlation record is active, with that
\* record's id.
C8_CorrelationIdIffActive ==
    Logged =>
        /\ {"service", "env"} \subseteq DOMAIN ConsoleFields
        /\ Emitted => {"service", "env"} \subseteq DOMAIN OtelAttributes
        /\ lastLog.scope # NoCtx
              => Prop(ConsoleFields, "correlation_id") = lastLog.scope.correlationId
        /\ lastLog.scope = NoCtx => "correlation_id" \notin DOMAIN ConsoleFields

\* C8 amended: every emitted record carries service and env; with a record
\* active it carries that record's id as correlation_id; with none active it
\* carries a correlation_id only if the call-site fields or the handle's
\* bindings supply a field of that name, and then with their value.
C8_CorrelationIdFromRecordOrCaller ==
    Logged =>
        /\ {"service", "env"} \subseteq DOMAIN ConsoleFields
        /\ Emitted => {"service", "env"} \subseteq DOMAIN OtelAttributes
        /\ lastLog.scope # NoCtx
              => /\ Prop(ConsoleFields, "correlation_id") = lastLog.scope.correlationId
                 /\ Emitted => Prop(OtelAttributes, "correlation_id")
                                 = lastLog.scope.correlationId
        /\ lastLog.scope = NoCtx
              => /\ Prop(ConsoleFields, "correlation_id")
                      = Prop(Spread(Bound, CallSite), "correlation_id")
                 /\ Emitted => Prop(OtelAttributes, "correlation_id")
                                 = Prop(Spread(Bound, CallSite), "correlation_id")

\* a call through the base logger, with no call-site fields and no record
\* active, reached both sinks without a correlation_id
C8_Witness ==
    /\ Logged
    /\ Emitted
    /\ lastLog.h = 1
    /\ lastLog.scope = NoCtx
    /\ lastLog.arg.type = "string"
    /\ "correlation_id" \notin DOMAIN ConsoleFields

\* a call inside an extent, with a call-site correlation_id, reached both sinks
C8_WitnessActive ==
    /\ Logged
    /\ Emitted
    /\ lastLog.scope \in Records
    /\ "correlation_id" \in DOMAIN CallSite

\* the last call was made at or above the minimum level
AtOrAboveThreshold == lastLog.h # 0 /\ Rank(lastLog.level) >= Rank(MinLevel)

\* C11 as stated: a log call at or above the threshold never throws because of
\* a field value: the console line is written with every call-site field in
\* it, a value that cannot be serialised included, and the record is handed to
\* the telemetry sink as well whenever the runtime is initialised and does not
\* fail itself.
C11_FieldValueNeverAborts ==
    AtOrAboveThreshold =>
        /\ ~lastLog.effect.threw
        /\ lastLog.effect.console # None
        /\ DOMAIN CallSite \subseteq DOMAIN ConsoleFields
        /\ (globalProvider = "LoggerProvider" /\ ~lastLog.effect.faulted)
              => lastLog.effect.otel # None

\* the telemetry runtime has been initialised: the global provider is no
\* longer the proxy of the logs API
Initialized == globalProvider # "ProxyLoggerProvider"

\* the message of the record the last call produces
Message == IF lastLog.arg.type = "string" THEN lastLog.arg.val
           ELSE IF lastLog.msg = Undef THEN "" ELSE lastLog.msg

\* C12 as stated: while the telemetry runtime is not initialised a log call
\* hands nothing to the telemetry sink and raises no error, and its console
\* line is still written; the only record the sink ever receives in a step is
\* the record of the call made in that step, with the runtime initialised, so
\* nothing logged earlier is delivered later; once the runtime is initialised
\* every call at or above the threshold makes one emission attempt (a record
\* handed over, or a fault of the runtime swallowed).
C12_SkipUntilInitialized ==
    lastLog.h # 0 =>
        /\ ~Initialized
              => /\ lastLog.effect.otel = None
                 /\ ~lastLog.effect.threw
                 /\ AtOrAboveThreshold => lastLog.effect.console # None
        /\ lastLog.effect.otel # None
              => /\ Initialized
                 /\ lastLog.effect.otel.body = Message
        /\ (Initialized /\ AtOrAboveThreshold)
              => (lastLog.effect.otel # None) # lastLog.effect.faulted

\* SeverityNumber of the logs API and the severity text, per level
SeverityTable ==
    [l \in Levels |->
        CASE l = "trace" -> [number |-> 1, text |-> "TRACE"]
          [] l = "debug" -> [number |-> 5, text |-> "DEBUG"]
          [] l = "info" -> [number |-> 9, text |-> "INFO"]
          [] l = "warn" -> [number |-> 13, text |-> "WARN"]
          [] l = "error" -> [number |-> 17, text |-> "ERROR"]
          [] l = "fatal" -> [number |-> 21, text |-> "FATAL"]]

\* the severity a call of this level is to be emitted with
SeverityOf(level) ==
    IF level \in Levels THEN SeverityTable[level] ELSE SeverityTable["info"]

\* a call of log was made in the last step
Called == lastLog # NoLog

\* nothing but the level stands between the last call and the telemetry sink:
\* the runtime is initialised and raises nothing, the fields can be
\* serialised, and the level (info for one outside the table) is not below
\* the minimum
Emittable ==
    /\ Called
    /\ Initialized
    /\ \A k \in DOMAIN CallSite : CallSite[k] # Cyclic
    /\ Rank(IF lastLog.level \in Levels THEN lastLog.level ELSE "info")
          >= Rank(MinLevel)

C9_ChildLeavesParentAlone ==
    /\ \A h \in DOMAIN handles : objs[handles[h].bindings] = handles[h].bound
    /\ (Logged /\ lastLog.scope = NoCtx /\ NODE_ENV = "development")
          => ConsoleFields = Spread(Bound, CallSite)

\* a record is logged through the first handle of a chain of two child()
\* calls after a caller changed an object it had passed to child()
C9_Witness ==
    /\ Logged
    /\ Len(handles) = 3
    /\ lastLog.h = 2
    /\ {"a", "b"} \subseteq DOMAIN handles[3].bound
    /\ \E o \in argOf : \E k \in DOMAIN objs[o] : objs[o][k] = "changed"

\* the message of the record as the console line shows it
ConsoleMessage ==
    IF lastLog.effect.console.format = "json"
    THEN lastLog.effect.console.line.msg
    ELSE lastLog.effect.console.msg

\* the names a record carries besides its user fields: the envelope of the
\* console line, the base fields and the context-derived fields of this call
OwnNames == {"time", "level", "msg", "service", "env"} \cup DOMAIN Derived

\* the user fields of a record are exactly those of user
UserFieldsAre(fields, user) ==
    /\ \A k \in DOMAIN user : Prop(fields, k) = user[k]
    /\ DOMAIN fields \subseteq DOMAIN user \cup OwnNames

\* the record of the last call has this message and these user fields, on the
\* console and, when it was handed over, at the telemetry sink
RecordIs(message, user) ==
    /\ ConsoleMessage = message
    /\ UserFieldsAre(ConsoleFields, user)
    /\ Emitted => /\ lastLog.effect.otel.body = message
                  /\ UserFieldsAre(OtelAttributes, user)

\* C14 as stated: a per-level method called as (message) emits a record with
\* that message whose user fields are exactly the handle's bindings; called as
\* (fields, message) it emits a record with the second argument as message
\* whose user fields are the bindings overlaid with fields, the call-site
\* value winning for every key present in both.
C14_CallShapeByFirstArgument ==
    Logged =>
        IF lastLog.arg.type = "string"
        THEN RecordIs(lastLog.arg.val, Bound)
        ELSE RecordIs(lastLog.msg, Spread(Bound, CallSite))

(***************************************************************************)
(* Properties of the telemetry bootstrap                                   *)
(***************************************************************************)
\* C15: over any sequence of initTelemetry and shutdownTelemetry calls the
\* runtime is constructed, registered as global logger provider and started
\* at most once, with one SIGTERM listener; every initTelemetry call returns
\* the one SDK instance, built from the configuration of the first call,
\* also after a shutdown; and as long as initTelemetry has not run nothing is
\* built or registered and shutdownTelemetry resolves at once.
C15_InitializedAtMostOnce ==
    /\ effects.constructed <= 1
    /\ effects.registered <= 1
    /\ effects.started <= 1
    /\ effects.listeners <= 1
    /\ returned.call = "initTelemetry"
          => /\ returned.value.id = 1
             /\ sdk.id = 1
             /\ returned.value.resource = sdk.resource
    /\ sdk = NoSdk
          => /\ effects = NoEffects
             /\ loggerProvider = NoProvider
             /\ globalProvider = "ProxyLoggerProvider"
             /\ returned.call = "shutdownTelemetry"
                   => returned.value = Promise("resolved")
    /\ sdk # NoSdk
          => effects = [constructed |-> 1, registered |-> 1, started |-> 1,
                        listeners |-> 1]

\* an initTelemetry call made after a shutdown, with a configuration other
\* than the first call's, returned the SDK that was shut down
C15_Witness ==
    /\ returned.call = "initTelemetry"
    /\ returned.value.state = "shutdown"
    /\ Resource(returned.args[1], returned.args[2], NODE_ENV) # sdk.resource

\* shutdownTelemetry was called before any initTelemetry
C15_WitnessEarlyShutdown ==
    /\ sdk = NoSdk
    /\ returned.call = "shutdownTelemetry"

(***************************************************************************)
(* Properties of the header codec                                          *)
(***************************************************************************)
CorrelationSpellings == {"x-correlation-id", "X-Correlation-ID", "X-CORRELATION-ID"}
RequestSpellings == {"x-request-id", "X-Request-ID"}

\* the values the header object holds under the spellings of one header name
ValuesOf(spellings) ==
    { headers[i][2] : i \in { j \in DOMAIN headers : headers[j][1] \in spellings } }
        \ { Undef }

\* the value of the last enumerated entry under the spellings, if any
LastValue(spellings) ==
    LET at == { j \in DOMAIN headers : headers[j][1] \in spellings }
    IN  IF at = {} THEN Undef
        ELSE headers[CHOOSE j \in at : \A i \in at : i <= j][2]

\* C10 as stated: the result is the value of the X-Correlation-ID header
\* (any spelling) when present, else the value of X-Request-ID when present,
\* and a fresh identifier only when neither is present.
C10_PresentHeaderWins ==
    extracted # Undef =>
        IF ValuesOf(CorrelationSpellings) # {}
        THEN extracted \in ValuesOf(CorrelationSpellings)
        ELSE IF ValuesOf(RequestSpellings) # {}
        THEN extracted \in ValuesOf(RequestSpellings)
        ELSE extracted \in FreshIds

\* C10 amended: the result is the X-Correlation-ID value when that value is a
\* non-empty string, else the X-Request-ID value when that is a non-empty
\* string, else a fresh identifier; of several keys that differ only in case
\* the last one enumerated counts.
C10_NonEmptyHeaderWins ==
    extracted # Undef =>
        IF Truthy(LastValue(CorrelationSpellings))
        THEN extracted = LastValue(CorrelationSpellings)
        ELSE IF Truthy(LastValue(RequestSpellings))
        THEN extracted = LastValue(RequestSpellings)
        ELSE extracted \in FreshIds

\* both headers arrive, the correlation id in upper case, and it wins
C10_Witness ==
    /\ extracted = "abc"
    /\ \E i, j \in DOMAIN headers :
          /\ headers[i] = <<"X-CORRELATION-ID", "abc">>
          /\ headers[j][1] \in RequestSpellings
          /\ headers[j][2] = "def"

====
